---- MODULE Spec2Model ----
(***************************************************************************)
(* Model of src/src/env.ts: the runtime-config environment of              *)
(* firebase-functions (AbstractEnv and RuntimeConfigEnv).                  *)
(*                                                                         *)
(* One RuntimeConfigEnv instance, constructed with a credential and a      *)
(* project id, so that its constructor has already called watch().         *)
(* JavaScript runs one callback at a time: every action below is one       *)
(* callback (or one public call) run to completion.  The remote service    *)
(* and the credential provider are the environment: their answers are      *)
(* chosen nondeterministically from small sets.  request() is one          *)
(* asynchronous operation: its then callback on the token only sends the   *)
(* HTTP request, so the promise it returns is pending until the HTTP       *)
(* response arrives, or is rejected by the token or by the transport.      *)
(***************************************************************************)
EXTENDS Naturals, Sequences, FiniteSets

(* ------------------------------ bounds ------------------------------ *)

\* UPDATED/DELETED responses the service sends in one run.
MaxEvents == 2
\* ready() calls made by the hosting process in one run.
MaxCallers == 2
\* observe() calls made by the hosting process in one run.
MaxObservers == 1

\* Largest updateTime the service sends (lastUpdated starts at the epoch, 0):
\* enough for every event of a run to carry a later time than the one before.
MaxTime == MaxEvents

(* --------------------------- value domains --------------------------- *)

\* A JavaScript reference that is undefined or null is None, a set one is
\* Some(x): both are sequences, so that any two can be compared.
None == <<>>
Some(x) == <<x>>

\* Keys of a configuration object; "firebase" is where the credential goes.
AllKeys == {"a", "b", "firebase"}

\* The empty object {}.
EmptyMap == [k \in AllKeys |-> "absent"]

\* The versions the service publishes, in the order it publishes them: the
\* n-th event of a run is about the n-th version.  Before anything is
\* published the metadata names no version, which the engine calls "v0".
VersionNames == << "v1", "v2", "v3", "v4", "v5" >>

\* The values the reserved configuration of the n-th version holds.
ReservedValues == << "r1", "r2", "r3", "r4", "r5" >>

\* The place of a published version in VersionNames.
VersionIndex(v) == CHOOSE n \in 1..Len(VersionNames) : VersionNames[n] = v

\* The custom configuration document stored for a version (what a GET of
\* variables/<version> holds, and what meta.latest inlines): keys a and b.
CustomDoc(v) ==
    IF v = "v0" THEN EmptyMap
    ELSE [k \in AllKeys |-> IF k \in {"a", "b"} THEN v ELSE "absent"]

\* The reserved configuration the metadata of a version carries: key b,
\* which the custom document holds too.
ReservedDoc(v) ==
    IF v = "v0" THEN EmptyMap
    ELSE [k \in AllKeys |-> IF k = "b" THEN ReservedValues[VersionIndex(v)] ELSE "absent"]

\* The versions the n-th event of a run can be about.
VersionsAt(n) == IF n = 1 THEN {"v0", VersionNames[n]} ELSE {VersionNames[n]}

\* The Metadata object of a watch response for version v; inl says whether
\* the custom configuration is inlined as `latest`.  The metadata of "v0"
\* carries neither a version nor a reserved field.
MetaOf(v, inl) ==
    [ version  |-> IF v = "v0" THEN "" ELSE v,
      reserved |-> IF v = "v0" THEN None ELSE Some(ReservedDoc(v)),
      latest   |-> IF inl THEN Some(CustomDoc(v)) ELSE None ]

\* Errors request() can be rejected with: an HTTP 502, and any other failure
\* (a failed token acquisition, a timeout, a 500, ...).
BadGateway == "E502"
OtherError == "EOther"

\* A slip of the status lookup: the path to the status code is wrong and
\* the lookup yields undefined for every error.
StatusCodeMissing(err) == "undefined"

\* _.get(err, 'response.statusCode')
StatusCode(err) == IF err = BadGateway THEN "502" ELSE "undefined"

\* What request() of the POST settled with: the state of the response (or
\* the error), its updateTime, and for UPDATED the version its metadata
\* names and whether it carries `latest`.
Response(state, t, ver, inl) ==
    [state |-> state, updateTime |-> t, version |-> ver, latest |-> inl]

NoResponse == Response("none", 0, "", FALSE)

\* Stages of one promise chain started by watch(): request() is pending (the
\* token is being acquired or the POST is in flight), the first then has
\* fulfilled its promise and the trailing then is due, or it has rejected it.
WatchStages == {"requested", "fulfilled", "rejected"}

(* ------------------------------- state ------------------------------- *)

VARIABLES
    watching,        \* _watching
    chains,          \* promise chains started by watch(): stage -> how many
    newerThan,       \* body.newerThan of the watch request issued last
    fetches,         \* promise chains started by fetch(), oldest first
    ready,           \* _ready
    readyError,      \* _readyError ("undefined" or an error)
    readyListeners,  \* _readyListeners: the callers queued by ready()
    outcome,         \* per ready() call: what became of the promise it returned
    observers,       \* _observers
    notified,        \* the calls made by the last _notifyObservers
    notifications,   \* how many times _notifyObservers has run
    lastUpdated,     \* lastUpdated
    version,         \* version ("undefined", "null" or a version)
    custom,          \* _custom
    customFromMeta,  \* _customFromMeta
    reserved,        \* _reserved
    merged,          \* _merged
    seq,             \* UPDATED/DELETED responses handled so far
    firstCycle,      \* no watch cycle has completed yet, empty 502 cycles aside
    firstFail,       \* the error request() failed with in the first cycle, or "none"
    monotone,        \* every updateTime so far was larger than the one before
    allUpdated,      \* every event so far was UPDATED
    reconciled,      \* _custom was last assigned by the fulfilment handler of the
                     \* fetch() of the latest event, with a parsed document
    handled          \* what request() of the POST settled with in the newest
                     \* chain of watch(), NoResponse while it is pending

vars == << watching, chains, newerThan, fetches, ready, readyError, readyListeners,
           outcome, observers, notified, notifications, lastUpdated, version, custom,
           customFromMeta, reserved, merged, seq, firstCycle, firstFail, monotone,
           allUpdated, reconciled, handled >>

engineVars == << ready, readyError, readyListeners, outcome, notified, notifications,
                 lastUpdated, version, custom, customFromMeta, reserved, merged >>

histVars == << seq, firstCycle, firstFail, monotone, allUpdated, reconciled, handled >>

(* ------------------------------ helpers ------------------------------ *)

\* `x || {}`
OrEmpty(o) == IF o = None THEN EmptyMap ELSE o[1]

\* _.assign(target, source): the source's own keys overwrite the target's.
Assign(target, source) ==
    [k \in AllKeys |-> IF source[k] # "absent" THEN source[k] ELSE target[k]]

\* _.set(m, 'firebase.credential', credential); the credential is set in
\* every state of this model (the constructor started the watch loop).
SetCredential(m) == [m EXCEPT !["firebase"] = "credential"]

\* _.assign({}, custom, reserved) with the credential injected; an
\* undefined source is skipped by _.assign.
Merge(c, r) == SetCredential(Assign(Assign(EmptyMap, OrEmpty(c)), OrEmpty(r)))

\* The getter without its readiness check.
DataNoGuard ==
    IF merged # None THEN merged ELSE Some(Merge(custom, reserved))

\* The data getter's outcome in the current state: None when it throws the
\* not-ready error, else Some(snapshot returned).
Data ==
    IF ~ready THEN None
    ELSE IF merged # None THEN merged
    ELSE Some(Merge(custom, reserved))

\* watch(): under the guard, set it and start a new promise chain with a
\* request() of the POST to meta:watch, whose body carries lastUpdated (lu);
\* nt is the body of the request issued before.
Watch(w, ch, lu, nt) ==
    IF ~w THEN [watching |-> TRUE, chains |-> [ch EXCEPT !["requested"] = @ + 1],
                newerThan |-> lu]
    ELSE [watching |-> w, chains |-> ch, newerThan |-> nt]

\* A chain of watch() moves from one stage to another.
Move(ch, from, to) == [ch EXCEPT ![from] = @ - 1, ![to] = @ + 1]

\* The sequence s without its i-th element.
Remove(s, i) == [j \in 1..(Len(s) - 1) |-> IF j < i THEN s[j] ELSE s[j + 1]]

\* The elements of a sequence.
Range(s) == {s[i] : i \in 1..Len(s)}

\* _notifyReady(err): err is "undefined" when no argument is passed.
NotifyReady(err) ==
    /\ ready' = TRUE
    /\ outcome' = [c \in 1..MaxCallers |->
                     IF c \in Range(readyListeners)
                     THEN (IF err # "undefined" THEN <<"rejected", err>> ELSE <<"resolved">>)
                     ELSE outcome[c]]
    /\ readyListeners' = <<>>
    /\ UNCHANGED readyError

\* _notifyObservers(data): each observer, in registration order, is called
\* with data (None when data is null); cust and ver are _custom and version
\* as they are while the callbacks run.
NotifyObservers(data, cust, ver) ==
    /\ notified' = [i \in 1..Len(observers) |->
                      [observer |-> observers[i], data |-> data,
                       custom |-> cust, version |-> ver]]
    /\ notifications' = notifications + 1

\* The promise chain fetch() builds from the state the metadata setter left:
\* the inlined custom configuration if any was ever stored, else
\* fetchVar(version), which resolves at once for "v0" and otherwise starts
\* a request() of the GET.  ev is the event that called fetch(), first
\* whether that was the first watch cycle.
Fetch(cfm, ver, ev, first) ==
    IF cfm # None THEN [ev |-> ev, first |-> first, stage |-> "resolved", name |-> ver, val |-> cfm]
    ELSE IF ver = "v0"
         THEN [ev |-> ev, first |-> first, stage |-> "resolved", name |-> ver, val |-> Some(EmptyMap)]
         ELSE [ev |-> ev, first |-> first, stage |-> "get", name |-> ver, val |-> None]

\* No promise reaction is due.  Reactions are microtasks: the event loop
\* runs them all before it delivers the next HTTP response or token, so a
\* request() settles only in such a state.
Quiescent ==
    /\ chains["fulfilled"] = 0
    /\ \A i \in 1..Len(fetches) : fetches[i].stage # "resolved"

(* ------------------------------- Init -------------------------------- *)

\* The state the constructor leaves: lastUpdated is the epoch, the listener
\* and observer lists are empty, the other fields are undefined, and
\* watch() has been called once.
Init ==
    /\ watching = Watch(FALSE, [s \in WatchStages |-> 0], 0, 0).watching
    /\ chains = Watch(FALSE, [s \in WatchStages |-> 0], 0, 0).chains
    /\ newerThan = Watch(FALSE, [s \in WatchStages |-> 0], 0, 0).newerThan
    /\ fetches = <<>>
    /\ ready = FALSE
    /\ readyError = "undefined"
    /\ readyListeners = <<>>
    /\ outcome = [c \in 1..MaxCallers |-> <<"uncalled">>]
    /\ observers = <<>>
    /\ notified = <<>>
    /\ notifications = 0
    /\ lastUpdated = 0
    /\ version = "undefined"
    /\ custom = None
    /\ customFromMeta = None
    /\ reserved = None
    /\ merged = None
    /\ seq = 0
    /\ firstCycle = TRUE
    /\ firstFail = "none"
    /\ monotone = TRUE
    /\ allUpdated = TRUE
    /\ reconciled = FALSE
    /\ handled = NoResponse

(* --------------------------- the public API --------------------------- *)

\* ready(): settled at once when readiness is established, queued otherwise.
Ready ==
    \E c \in 1..MaxCallers :
        /\ outcome[c] = <<"uncalled">>
        /\ \A d \in 1..MaxCallers : d < c => outcome[d] # <<"uncalled">>
        /\ IF ready
           THEN /\ outcome' = [outcome EXCEPT ![c] =
                                 IF readyError # "undefined" THEN <<"rejected", readyError>>
                                 ELSE <<"resolved">>]
                /\ UNCHANGED readyListeners
           ELSE /\ outcome' = [outcome EXCEPT ![c] = <<"pending">>]
                /\ readyListeners' = Append(readyListeners, c)
        /\ UNCHANGED << watching, chains, newerThan, fetches, ready, readyError, observers,
                        notified, notifications, lastUpdated, version, custom,
                        customFromMeta, reserved, merged >>
        /\ UNCHANGED histVars

\* observe(callback)
Observe ==
    /\ Len(observers) < MaxObservers
    /\ observers' = Append(observers, Len(observers) + 1)
    /\ UNCHANGED << watching, chains, newerThan, fetches >>
    /\ UNCHANGED engineVars
    /\ UNCHANGED histVars

\* A read of the data getter: it throws before readiness and otherwise
\* returns the cached snapshot, computing and caching it when there is none.
ReadData ==
    /\ merged' = IF ready THEN Data ELSE merged
    /\ UNCHANGED << watching, chains, newerThan, fetches, ready, readyError,
                    readyListeners, outcome, observers, notified, notifications,
                    lastUpdated, version, custom, customFromMeta, reserved >>
    /\ UNCHANGED histVars

(* --------------------------- the watch loop --------------------------- *)

\* The POST is answered {state: 'UPDATED', text, updateTime} with a text
\* that parses to a Metadata object: the _meta setter, lastUpdated, fetch().
WatchUpdated ==
    \E v \in VersionsAt(seq + 1), inl \in BOOLEAN, t \in 1..MaxTime :
        LET meta == MetaOf(v, inl)
            ver  == IF meta.version # "" THEN meta.version ELSE "v0"
            cfm  == IF meta.latest # None THEN meta.latest ELSE customFromMeta
        IN  /\ chains["requested"] > 0 /\ Quiescent
            /\ seq < MaxEvents
            /\ version' = ver
            /\ reserved' = Some(OrEmpty(meta.reserved))
            /\ merged' = None
            /\ customFromMeta' = cfm
            /\ lastUpdated' = t
            /\ fetches' = Append(fetches, Fetch(cfm, ver, seq + 1, firstCycle))
            /\ chains' = Move(chains, "requested", "fulfilled")
            /\ seq' = seq + 1
            /\ firstCycle' = FALSE
            /\ monotone' = (monotone /\ t > lastUpdated)
            /\ reconciled' = FALSE
            /\ handled' = Response("UPDATED", t, ver, meta.latest # None)
            /\ UNCHANGED << watching, newerThan, ready, readyError, readyListeners, outcome,
                            observers, notified, notifications, custom, firstFail,
                            allUpdated >>

\* The POST is answered with state 'UPDATED' and a text that is no JSON of
\* a Metadata object: JSON.parse (or the setter) throws inside the
\* fulfilment handler, the chain is rejected and the trailing then skipped.
WatchUpdatedBadText ==
    /\ chains["requested"] > 0 /\ Quiescent
    /\ chains' = Move(chains, "requested", "rejected")
    /\ firstCycle' = FALSE
    /\ handled' = Response("UPDATED-unparsed", 0, "", FALSE)
    /\ UNCHANGED << watching, newerThan, fetches, observers, seq, firstFail, monotone,
                    allUpdated, reconciled >>
    /\ UNCHANGED engineVars

\* A slip of the DELETED handler: it re-arms the loop itself, and the
\* trailing then re-arms it again.
WatchDeletedRearming ==
    \E t \in 1..MaxTime :
        /\ chains["requested"] > 0 /\ Quiescent
        /\ seq < MaxEvents
        /\ NotifyObservers(Some(EmptyMap), custom, version)
        /\ custom' = Some(EmptyMap)
        /\ version' = "null"
        /\ lastUpdated' = t
        /\ watching' = Watch(FALSE, Move(chains, "requested", "fulfilled"), t, newerThan).watching
        /\ chains' = Watch(FALSE, Move(chains, "requested", "fulfilled"), t, newerThan).chains
        /\ newerThan' = Watch(FALSE, Move(chains, "requested", "fulfilled"), t, newerThan).newerThan
        /\ handled' = Response("DELETED", t, "", FALSE)
        /\ seq' = seq + 1
        /\ firstCycle' = FALSE
        /\ monotone' = (monotone /\ t > lastUpdated)
        /\ allUpdated' = FALSE
        /\ reconciled' = FALSE
        /\ UNCHANGED << fetches, ready, readyError, readyListeners, outcome,
                        observers, customFromMeta, reserved, merged, firstFail >>

\* A slip of the DELETED handler: it leaves version as it was.
WatchDeletedKeepingVersion ==
    \E t \in 1..MaxTime :
        /\ chains["requested"] > 0 /\ Quiescent
        /\ seq < MaxEvents
        /\ NotifyObservers(Some(EmptyMap), custom, version)
        /\ custom' = Some(EmptyMap)
        /\ lastUpdated' = t
        /\ chains' = Move(chains, "requested", "fulfilled")
        /\ handled' = Response("DELETED", t, "", FALSE)
        /\ seq' = seq + 1
        /\ firstCycle' = FALSE
        /\ monotone' = (monotone /\ t > lastUpdated)
        /\ allUpdated' = FALSE
        /\ reconciled' = FALSE
        /\ UNCHANGED << watching, newerThan, fetches, ready, readyError, readyListeners,
                        outcome, observers, version, customFromMeta, reserved, merged,
                        firstFail >>

\* The POST is answered {state: 'DELETED', updateTime}.
WatchDeleted ==
    \E t \in 1..MaxTime :
        /\ chains["requested"] > 0 /\ Quiescent
        /\ seq < MaxEvents
        /\ NotifyObservers(Some(EmptyMap), custom, version)
        /\ custom' = Some(EmptyMap)
        /\ version' = "null"
        /\ lastUpdated' = t
        /\ chains' = Move(chains, "requested", "fulfilled")
        /\ handled' = Response("DELETED", t, "", FALSE)
        /\ seq' = seq + 1
        /\ firstCycle' = FALSE
        /\ monotone' = (monotone /\ t > lastUpdated)
        /\ allUpdated' = FALSE
        /\ reconciled' = FALSE
        /\ UNCHANGED << watching, newerThan, fetches, ready, readyError, readyListeners,
                        outcome, observers, customFromMeta, reserved, merged, firstFail >>

\* The POST is answered with any other state: neither branch is taken.
WatchOther ==
    /\ chains["requested"] > 0 /\ Quiescent
    /\ chains' = Move(chains, "requested", "fulfilled")
    /\ firstCycle' = FALSE
    /\ handled' = Response("OTHER", 0, "", FALSE)
    /\ UNCHANGED << watching, newerThan, fetches, observers, seq, firstFail, monotone,
                    allUpdated, reconciled >>
    /\ UNCHANGED engineVars

\* request() of the POST fails, at the token or at the POST: a 502 is
\* turned into a fulfilled promise, any other error is passed on as a
\* rejection, which the trailing then has no handler for.
WatchError ==
    \E err \in {BadGateway, OtherError} :
        /\ chains["requested"] > 0 /\ Quiescent
        /\ IF StatusCode(err) = "502"
           THEN /\ chains' = Move(chains, "requested", "fulfilled")
                /\ UNCHANGED << firstCycle, firstFail >>
           ELSE /\ chains' = Move(chains, "requested", "rejected")
                /\ firstCycle' = FALSE
                /\ firstFail' = IF firstCycle THEN err ELSE firstFail
        /\ handled' = Response(err, 0, "", FALSE)
        /\ UNCHANGED << watching, newerThan, fetches, observers, seq, monotone, allUpdated,
                        reconciled >>
        /\ UNCHANGED engineVars

\* The trailing then of a fulfilled chain: clear the guard, call watch().
Rearm ==
    /\ chains["fulfilled"] > 0
    /\ watching' = Watch(FALSE, [chains EXCEPT !["fulfilled"] = @ - 1], lastUpdated, newerThan).watching
    /\ chains' = Watch(FALSE, [chains EXCEPT !["fulfilled"] = @ - 1], lastUpdated, newerThan).chains
    /\ newerThan' = Watch(FALSE, [chains EXCEPT !["fulfilled"] = @ - 1], lastUpdated, newerThan).newerThan
    /\ handled' = NoResponse
    /\ UNCHANGED << fetches, observers >>
    /\ UNCHANGED engineVars
    /\ UNCHANGED << seq, firstCycle, firstFail, monotone, allUpdated, reconciled >>

(* ------------------------- fetch and fetchVar ------------------------- *)

\* A slip of the fulfilment handler: it assigns data to _custom as it is,
\* without the `|| {}`.
OnFetchedRaw(i, data) ==
    /\ merged' = None
    /\ custom' = data
    /\ NotifyReady("undefined")
    /\ NotifyObservers(data, custom', version)
    /\ fetches' = Remove(fetches, i)
    /\ reconciled' = (fetches[i].ev = seq /\ data # None)
    /\ UNCHANGED << watching, chains, newerThan, observers, lastUpdated, version,
                    customFromMeta, reserved, seq, firstCycle, firstFail, monotone,
                    allUpdated, handled >>

\* The fulfilment handler of fetch() for the i-th chain, with the value
\* data it resolved to (None for null).
OnFetched(i, data) ==
    /\ merged' = None
    /\ custom' = Some(OrEmpty(data))
    /\ NotifyReady("undefined")
    /\ NotifyObservers(data, custom', version)
    /\ fetches' = Remove(fetches, i)
    /\ reconciled' = (fetches[i].ev = seq /\ data # None)
    /\ UNCHANGED << watching, chains, newerThan, observers, lastUpdated, version,
                    customFromMeta, reserved, seq, firstCycle, firstFail, monotone,
                    allUpdated, handled >>

\* The rejection handler of fetch() for the i-th chain.
OnFetchError(i, err) ==
    /\ merged' = None
    /\ custom' = Some(EmptyMap)
    /\ NotifyReady(err)
    /\ fetches' = Remove(fetches, i)
    /\ reconciled' = FALSE
    /\ firstFail' = IF fetches[i].first /\ firstFail = "none" THEN err ELSE firstFail
    /\ UNCHANGED << watching, chains, newerThan, observers, notified, notifications,
                    lastUpdated, version, customFromMeta, reserved, seq, firstCycle,
                    monotone, allUpdated, handled >>

\* fetched was resolved when fetch() built it (inlined configuration, or
\* fetchVar('v0')): its fulfilment handler runs.
FetchResolved ==
    \E i \in 1..Len(fetches) :
        /\ fetches[i].stage = "resolved"
        /\ OnFetched(i, fetches[i].val)

\* request() of the GET of variables/<name> settles: with the stored
\* document, with a text that is no JSON (fetchVar resolves to null), or
\* with an error of the token acquisition or of the GET.
FetchVarResponse ==
    \E i \in 1..Len(fetches) :
        /\ fetches[i].stage = "get" /\ Quiescent
        /\ \/ OnFetched(i, Some(CustomDoc(fetches[i].name)))
           \/ OnFetched(i, None)
           \/ OnFetchError(i, OtherError)

(* ----------------------------- behaviours ----------------------------- *)

Next ==
    \/ Ready
    \/ Observe
    \/ ReadData
    \/ WatchUpdated
    \/ WatchUpdatedBadText
    \/ WatchDeleted
    \/ WatchOther
    \/ WatchError
    \/ Rearm
    \/ FetchResolved
    \/ FetchVarResponse

Spec == Init /\ [][Next]_vars

\* Every request() eventually settles and every promise reaction that is due
\* eventually runs; what the hosting process calls, and when, is up to it.
WatchSettles ==
    WatchUpdated \/ WatchUpdatedBadText \/ WatchDeleted \/ WatchOther \/ WatchError

FairSpec ==
    /\ Spec
    /\ WF_vars(WatchSettles)
    /\ WF_vars(Rearm)
    /\ WF_vars(FetchResolved)
    /\ WF_vars(FetchVarResponse)

(* ------------------------------- claims ------------------------------- *)

\* The ready() calls whose promise is settled.
Settled == {c \in 1..MaxCallers : outcome[c] \notin {<<"uncalled">>, <<"pending">>}}

\* The snapshot of one published version: its custom document under its
\* reserved configuration.
SnapshotOf(v) == Merge(Some(CustomDoc(v)), Some(ReservedDoc(v)))

\* C1: in every reachable state at most one request() of the POST to
\* meta:watch is pending, whatever responses, errors and fetch completions
\* came before.
C1_OneWatchOutstanding == chains["requested"] <= 1

\* C1 witness: the loop has re-armed after an UPDATED response, so a watch
\* request and a variable fetch are pending together.
C1_Witness ==
    /\ chains["requested"] = 1
    /\ seq >= 1
    /\ \E i \in 1..Len(fetches) : fetches[i].stage = "get"

\* C2: whenever the watching guard is set, a watch request is outstanding
\* or the trailing then that clears the guard and re-arms is due; the guard
\* never stays set with neither.
C2_GuardNeverStuck == watching => chains["requested"] + chains["fulfilled"] >= 1

\* C3: no two ready() calls on the instance have different outcomes.
C3_SameOutcome == \A c, d \in Settled : outcome[c] = outcome[d]

\* C4: once the first cycle has failed with an error other than a 502 of
\* the watch call, readiness is established as failed: ready is set,
\* readyError is that error and no ready() caller is left pending.
C4_FirstFailureCaptured ==
    firstFail # "none" => (ready /\ readyError = firstFail /\ readyListeners = <<>>)

\* C5: once a watch cycle has completed with an outcome other than a 502,
\* every caller queued by ready() is eventually settled, given that every
\* outstanding request eventually completes.
C5_ReadyEventuallySettles ==
    (~firstCycle /\ readyListeners # <<>>) ~> (readyListeners = <<>>)

\* C6: while readiness is not established the data getter throws and no
\* merged snapshot exists; and readiness, once established, stays.
C6_NotReadyHidesData ==
    [][ /\ ~ready => (Data = None /\ merged = None)
        /\ ready => ready' ]_vars

\* C6 witness: both halves of the configuration have been assigned (a
\* DELETED response, then an UPDATED one whose fetch is pending) and the
\* engine is still not ready.
C6_Witness == ~ready /\ custom # None /\ reserved # None

\* C7: after UPDATED events only, with strictly increasing updateTime, once
\* the fetch of the latest event has delivered its document, data returns
\* the custom document of that event's version under its reserved
\* configuration.
C7_SnapshotIsLatestPair ==
    (ready /\ allUpdated /\ monotone /\ reconciled) => Data = Some(SnapshotOf(version))

\* C8: in every ready state data returns the merge of the current custom
\* and reserved configuration (every change of either invalidates the
\* cached snapshot).
C8_CacheTracksInputs == ready => Data = Some(Merge(custom, reserved))

\* C9: whenever no promise reaction is due, so that a task of the hosting
\* process can run and read data, the snapshot holds the halves of one
\* version: the custom document and the reserved configuration of the same
\* version, or the reserved configuration of a version alone.  Stated for
\* a service whose updateTime has always increased.
C9_SnapshotOfOneVersion ==
    (ready /\ Quiescent /\ monotone) =>
        \E v \in {"v0"} \cup Range(VersionNames) :
            \/ Data = Some(SnapshotOf(v))
            \/ Data = Some(Merge(None, Some(ReservedDoc(v))))

\* C10: the completion of a fetch started by an event that is no longer the
\* latest one leaves custom as it is, and custom is empty whenever version
\* is null.  Stated for a service whose updateTime has always increased.
C10_StaleFetchIgnored ==
    [][ monotone =>
          /\ \A i \in 1..Len(fetches) :
                (fetches[i].ev < seq /\ fetches' = Remove(fetches, i)) => custom' = custom
          /\ version' = "null" => custom' = Some(EmptyMap) ]_vars

\* A step in which request() of the POST settles with the response or error
\* of the given state.
Handles(state) == handled' # handled /\ handled'.state = state

\* A step in which the rejection handler of fetch() runs for a failed GET.
FetchFails == \E i \in 1..Len(fetches) : fetches[i].stage = "get" /\ OnFetchError(i, OtherError)

\* C11: once readiness is established, a cycle that fails (request() of the
\* POST rejected with an error other than a 502, or the variable fetch
\* rejected) leaves the readiness outcome, _custom and the snapshot the data
\* getter returns as they were.
C11_LateFailureKeepsState ==
    [][ (ready /\ (Handles(OtherError) \/ FetchFails)) =>
            /\ ready' /\ readyError' = readyError /\ outcome' = outcome
            /\ custom' = custom
            /\ Data' = Data ]_vars

\* The calls _notifyObservers makes when it runs with data while the
\* observers are obs: one per observer, in registration order.
Calls(batch, obs, data) ==
    /\ Len(batch) = Len(obs)
    /\ \A k \in 1..Len(obs) : batch[k].observer = obs[k] /\ batch[k].data = data

\* C12: a DELETED response sets _custom to the empty map, version to null
\* and lastUpdated to the response's updateTime, calls every registered
\* observer once with the empty map and starts no variable fetch; the
\* trailing then is due after it and issues the next watch request, whose
\* newerThan is that updateTime.
C12_DeletedResetsAndContinues ==
    [][ /\ Handles("DELETED") =>
              /\ custom' = Some(EmptyMap)
              /\ version' = "null"
              /\ lastUpdated' = handled'.updateTime
              /\ notifications' = notifications + 1
              /\ Calls(notified', observers, Some(EmptyMap))
              /\ fetches' = fetches
              /\ chains'["fulfilled"] = chains["fulfilled"] + 1
        /\ (handled.state = "DELETED" /\ handled' # handled) =>
              /\ chains'["requested"] = chains["requested"] + 1
              /\ chains'["fulfilled"] = chains["fulfilled"] - 1
              /\ newerThan' = handled.updateTime ]_vars

\* C12 witness: an observer was called with the empty map by a DELETED
\* response and the next watch request, from that updateTime on, is pending.
C12_Witness ==
    /\ version = "null" /\ custom = Some(EmptyMap)
    /\ observers # <<>> /\ Calls(notified, observers, Some(EmptyMap))
    /\ handled = NoResponse /\ chains["requested"] = 1
    /\ newerThan = lastUpdated /\ lastUpdated > 0

\* C13: a watch request that fails with a 502 calls no observer and leaves
\* version, lastUpdated, _custom, _reserved and the readiness state as they
\* were; the trailing then is due after it and issues the next watch
\* request with the newerThan of the failed one.
C13_BadGatewayIsEmptyCycle ==
    [][ /\ Handles(BadGateway) =>
              /\ notifications' = notifications /\ notified' = notified
              /\ version' = version /\ lastUpdated' = lastUpdated
              /\ custom' = custom /\ reserved' = reserved
              /\ ready' = ready /\ readyError' = readyError
              /\ readyListeners' = readyListeners /\ outcome' = outcome
              /\ chains'["fulfilled"] = chains["fulfilled"] + 1
        /\ (handled.state = BadGateway /\ handled' # handled) =>
              /\ chains'["requested"] = chains["requested"] + 1
              /\ chains'["fulfilled"] = chains["fulfilled"] - 1
              /\ newerThan' = newerThan ]_vars

\* C13 witness: a 502 has just been handled in a ready state with an
\* observer that has been called and a non-empty _custom: the trailing then
\* is due.
C13_Witness ==
    /\ handled.state = BadGateway /\ chains["fulfilled"] = 1
    /\ ready /\ observers # <<>> /\ notifications > 0
    /\ custom \notin {None, Some(EmptyMap)}
    /\ newerThan = lastUpdated /\ lastUpdated > 0

\* C14: lastUpdated never gets smaller, and so neither does the newerThan
\* of the watch requests, whatever updateTime an UPDATED or DELETED
\* response carries.
C14_LastUpdatedNeverRegresses ==
    [][ lastUpdated' >= lastUpdated /\ newerThan' >= newerThan ]_vars

\* C15: every UPDATED response starts one reconciliation whose custom
\* configuration is that of the response's own metadata: its `latest` with
\* no GET when it carries one, else fetchVar of its version, which is a GET
\* for every version but "v0" -- whatever earlier events carried.
C15_CustomFromOwnMetadata ==
    [][ Handles("UPDATED") =>
          /\ Len(fetches') = Len(fetches) + 1
          /\ LET f == fetches'[Len(fetches')]
                 v == handled'.version
             IN  IF handled'.latest
                 THEN f.stage = "resolved" /\ f.val = Some(CustomDoc(v))
                 ELSE IF v = "v0"
                      THEN f.stage = "resolved" /\ f.val = Some(EmptyMap)
                      ELSE f.stage = "get" /\ f.name = v ]_vars

\* A step in which a handler of fetch() runs: the reconciliation of one
\* event, after a fetch that succeeded or failed.
Reconciles == Len(fetches') < Len(fetches)

\* C16: every reconciliation, after a successful and after a failed fetch
\* alike, calls each registered observer once with the value _custom has
\* after the step: a map (the empty one when the fetch failed or the payload
\* was malformed), never null.
C16_ObserversGetNewCustom ==
    [][ (Reconciles /\ observers # <<>>) =>
          /\ notifications' = notifications + 1
          /\ custom' # None
          /\ Calls(notified', observers, custom') ]_vars

\* A step in which the GET is answered with a text that is no JSON:
\* fetchVar resolves to null and the fulfilment handler of fetch() runs.
FetchMalformed == \E i \in 1..Len(fetches) : fetches[i].stage = "get" /\ OnFetched(i, None)

\* C17: when the GET is answered with a text that is no JSON, _custom
\* becomes the empty map, readiness is established without an error (every
\* queued ready() call is resolved, the settled ones stay as they are) and
\* the chain of watch() is left as it is: unless a watch cycle was rejected
\* before, its request stays pending or its trailing then due, so the loop
\* goes on.
C17_MalformedPayloadIsEmptyConfig ==
    [][ FetchMalformed =>
          /\ custom' = Some(EmptyMap)
          /\ ready' /\ readyError' = "undefined" /\ readyListeners' = <<>>
          /\ outcome' = [c \in 1..MaxCallers |->
                           IF c \in Range(readyListeners) THEN <<"resolved">>
                           ELSE outcome[c]]
          /\ watching' = watching /\ chains' = chains /\ newerThan' = newerThan
          /\ chains'["rejected"] = 0 => chains'["requested"] + chains'["fulfilled"] = 1 ]_vars

\* C17 witness: a malformed payload has been reconciled (the observer was
\* called with null), a ready() call is resolved and the next watch request
\* is pending.
C17_Witness ==
    /\ custom = Some(EmptyMap) /\ ready
    /\ notified # <<>> /\ notified[1].data = None
    /\ outcome[1] = <<"resolved">>
    /\ chains["requested"] = 1

\* C18: every change of _custom -- each reconciliation of an UPDATED event
\* and each DELETED event -- calls the observers registered at that moment,
\* each exactly once, in registration order; observe() itself calls
\* nothing, so a new observer is not told of past events.
C18_EveryChangeNotifiesInOrder ==
    [][ /\ (observers # <<>> /\ (Reconciles \/ Handles("DELETED"))) =>
              /\ notifications' = notifications + 1
              /\ Len(notified') = Len(observers)
              /\ \A k \in 1..Len(observers) : notified'[k].observer = observers[k]
        /\ observers' # observers =>
              /\ notifications' = notifications
              /\ notified' = notified ]_vars

\* C19: the next watch request is issued only after the variable fetch the
\* last UPDATED response triggered has completed: a request() of the POST
\* and the GET of an earlier cycle are never pending together.
C19_FetchBeforeNextWatch ==
    chains["requested"] > 0 => \A i \in 1..Len(fetches) : fetches[i].stage # "get"

\* C20: observers are called only after the change they are told of: while
\* the callbacks of a reconciliation or of a DELETED event run, _custom and
\* version already have the values the event leaves them with (after
\* DELETED: the empty map and null).
C20_NotifiedAfterChange ==
    [][ notifications' # notifications =>
          \A k \in 1..Len(notified') :
              /\ notified'[k].custom = custom'
              /\ notified'[k].version = version' ]_vars


====
